---- MODULE Spec2Model ----
(***************************************************************************)
(* Model of the freelance-marketplace HTTP API (src/src/app.js): the       *)
(* Profile / Contract / Job tables, the payment handler split at its       *)
(* persistence calls (each await is a suspension point at which other      *)
(* requests may run), and the read-only contract, job and report handlers. *)
(***************************************************************************)
EXTENDS Integers, Sequences, FiniteSets, TLC

VARIABLES profiles, contracts, jobs, req, res, served, profiles0, jobs0

vars == <<profiles, contracts, jobs, req, res, served, profiles0, jobs0>>

(***************************************************************************)
(* Bounds of the model.                                                    *)
(***************************************************************************)
NumClients == 2
NumContractors == 2
NumContracts == 2
NumJobs == 2
MaxPrice == 2
MaxBalance == 2
MaxDate == 1
NumReq == 2
NumReportJobs == 3
MaxServed == 1
MaxLimit == 2

(***************************************************************************)
(* The tables.  A column that is NULL in the database holds Null; the      *)
(* boolean column paid holds "true", "false" or "null" (the column has no  *)
(* NOT NULL constraint and rows created without it hold NULL).             *)
(***************************************************************************)
Null == -1

Clients == 1..NumClients
Contractors == (NumClients + 1)..(NumClients + NumContractors)
ProfileIds == Clients \cup Contractors
ContractIds == 1..NumContracts
JobIds == 1..NumJobs
Dates == 0..MaxDate
Professions == {"Programmer", "Musician"}
Status == {"new", "in_progress", "terminated"}
PaidValues == {"null", "false", "true"}
Requests == 1..NumReq

\* the check inverted
TruthyInverted(v) == v = "false"

\* JavaScript truthiness of the paid column: if(jobToPay.paid)
Truthy(v) == v = "true"

RECURSIVE SumOver(_, _)
\* Sum of f[x] over the finite set S
SumOver(S, f) ==
    IF S = {} THEN 0
    ELSE LET x == CHOOSE y \in S : TRUE
         IN f[x] + SumOver(S \ {x}, f)

(***************************************************************************)
(* POST /jobs/:job_id/pay                                                  *)
(***************************************************************************)
NoProfile == [id |-> 0, type |-> "none", balance |-> 0]
NoJob == [id |-> 0, ContractId |-> 0, price |-> 0, paid |-> "null", paymentDate |-> Null]
NoContract == [id |-> 0, Contractor |-> [id |-> 0, balance |-> 0]]

Idle == [pc |-> "idle", profile |-> NoProfile, job_id |-> 0, jobToPay |-> NoJob,
         jobContract |-> NoContract,
         pre |-> [p \in ProfileIds |-> 0]]

Done == [Idle EXCEPT !.pc = "done"]

\* res.json(...) followed by return: the handler is over and its locals are
\* gone; res holds the response just sent
Reply(r, body) ==
    /\ req' = [req EXCEPT ![r] = Done]
    /\ res' = [kind |-> "pay", profile |-> req[r].profile.id, job_id |-> req[r].job_id,
               body |-> body]

\* getProfile middleware, then the handler up to its first await
StartPay(r, caller, job_id) ==
    /\ req[r].pc = "idle"
    /\ LET profile == [id |-> caller, type |-> profiles[caller].type,
                       balance |-> profiles[caller].balance]
           started == [req[r] EXCEPT !.profile = profile, !.job_id = job_id,
                                     !.pre = [p \in ProfileIds |-> profiles[p].balance]]
       IN IF profile.type # "client"
          THEN /\ req' = [req EXCEPT ![r] = Done]
               /\ res' = [kind |-> "pay", profile |-> caller, job_id |-> job_id,
                          body |-> "Only clients can pay for jobs"]
          ELSE /\ req' = [req EXCEPT ![r] = [started EXCEPT !.pc = "findJob"]]
               /\ res' = res
    /\ UNCHANGED <<profiles, contracts, jobs, served, profiles0, jobs0>>

\* const jobToPay = await Job.findOne({where: {id: job_id}}); if(jobToPay.paid) ...
FindJob(r) ==
    /\ req[r].pc = "findJob"
    /\ IF req[r].job_id \notin DOMAIN jobs
       THEN Reply(r, "TypeError")
       ELSE LET row == jobs[req[r].job_id]
                jobToPay == [id |-> req[r].job_id, ContractId |-> row.ContractId,
                             price |-> row.price, paid |-> row.paid,
                             paymentDate |-> row.paymentDate]
            IN IF Truthy(jobToPay.paid)
               THEN Reply(r, "This job was already paid")
               ELSE /\ req' = [req EXCEPT ![r].pc = "getContract", ![r].jobToPay = jobToPay]
                    /\ res' = res
    /\ UNCHANGED <<profiles, contracts, jobs, served, profiles0, jobs0>>

\* const jobContract = await jobToPay.getContract({include: 'Contractor'})
GetContract(r) ==
    /\ req[r].pc = "getContract"
    /\ LET cid == req[r].jobToPay.ContractId
           ctr == contracts[cid].ContractorId
       IN req' = [req EXCEPT ![r].pc = "hasClient",
                             ![r].jobContract = [id |-> cid,
                                 Contractor |-> [id |-> ctr, balance |-> profiles[ctr].balance]]]
    /\ UNCHANGED <<profiles, contracts, jobs, res, served, profiles0, jobs0>>

\* the comparison the wrong way round
CanPayInverted(balance, price) == price >= balance

\* const canPay = profile.balance >= jobToPay.price
CanPay(balance, price) == balance >= price

\* the caller credited instead of debited
DebitAsCredit(balance, price) == balance + price

\* profile.balance -= jobToPay.price
Debit(balance, price) == balance - price

\* jobContract.Contractor.balance += jobToPay.price
Credit(balance, price) == balance + price

\* await profile.hasClient(jobContract), the two guards after it and the debit
\* of the caller's instance, up to await profile.save()
HasClient(r) ==
    /\ req[r].pc = "hasClient"
    /\ LET profileIsCliente == contracts[req[r].jobContract.id].ClientId = req[r].profile.id
       IN IF ~profileIsCliente
          THEN Reply(r, "You are not the client of this job")
          ELSE IF ~CanPay(req[r].profile.balance, req[r].jobToPay.price)
          THEN Reply(r, "Your balance is not enought to pay for this job")
          ELSE /\ req' = [req EXCEPT ![r].pc = "saveProfile",
                              ![r].profile.balance = Debit(@, req[r].jobToPay.price)]
               /\ res' = res
    /\ UNCHANGED <<profiles, contracts, jobs, served, profiles0, jobs0>>

\* await profile.save(), then the credit of the Contractor instance
SaveProfile(r) ==
    /\ req[r].pc = "saveProfile"
    /\ profiles' = [profiles EXCEPT ![req[r].profile.id].balance = req[r].profile.balance]
    /\ req' = [req EXCEPT ![r].pc = "saveContractor",
                  ![r].jobContract.Contractor.balance = Credit(@, req[r].jobToPay.price)]
    /\ UNCHANGED <<contracts, jobs, res, served, profiles0, jobs0>>

\* await jobContract.Contractor.save(), then paid and paymentDate of the job instance
SaveContractor(r, today) ==
    /\ req[r].pc = "saveContractor"
    /\ profiles' = [profiles EXCEPT ![req[r].jobContract.Contractor.id].balance =
                                        req[r].jobContract.Contractor.balance]
    /\ req' = [req EXCEPT ![r].pc = "saveJob", ![r].jobToPay.paid = "true",
                          ![r].jobToPay.paymentDate = today]
    /\ UNCHANGED <<contracts, jobs, res, served, profiles0, jobs0>>

\* await jobToPay.save(), then the success reply
SaveJob(r) ==
    /\ req[r].pc = "saveJob"
    /\ jobs' = [jobs EXCEPT ![req[r].job_id].paid = req[r].jobToPay.paid,
                            ![req[r].job_id].paymentDate = req[r].jobToPay.paymentDate]
    /\ Reply(r, "Job paid successfully")
    /\ UNCHANGED <<profiles, contracts, served, profiles0, jobs0>>

(***************************************************************************)
(* The persistence queries of the read-only handlers.  findAll returns the *)
(* matching rows in storage (id) order.                                    *)
(***************************************************************************)
\* one more read-only request is served, while the model's bound allows
Serve == served < MaxServed /\ served' = served + 1

ContractRow(c) ==
    [id |-> c, ClientId |-> contracts[c].ClientId,
     ContractorId |-> contracts[c].ContractorId, status |-> contracts[c].status]

JobRowOf(j) ==
    [id |-> j, ContractId |-> jobs[j].ContractId, price |-> jobs[j].price,
     paid |-> jobs[j].paid, paymentDate |-> jobs[j].paymentDate]

Ids(n) == [i \in 1..n |-> i]

\* the elements of a sequence
Range(s) == {s[i] : i \in 1..Len(s)}

\* const getBelongsToKey = (profile) => profile.type === 'client' ? 'ClientId' : 'ContractorId'
GetBelongsToKey(profile) == IF profile.type = "client" THEN "ClientId" ELSE "ContractorId"

\* the caller resolved by the getProfile middleware
Profile(caller) == [id |-> caller, type |-> profiles[caller].type]

\* the id alone, the owner not matched
FindOneContractAnyOwner(id, belongToKey, profileId) ==
    LET Match(c) == c = id
        found == SelectSeq(Ids(Len(contracts)), Match)
    IN [i \in 1..Len(found) |-> ContractRow(found[i])]

\* Contract.findOne({where: { id, [belongToKey]: profile.id}}): <<>> is null
FindOneContract(id, belongToKey, profileId) ==
    LET Match(c) == c = id /\ contracts[c][belongToKey] = profileId
        found == SelectSeq(Ids(Len(contracts)), Match)
    IN [i \in 1..Len(found) |-> ContractRow(found[i])]

\* GET /contracts/:id
GetContractById(caller, id) ==
    /\ Serve
    /\ res' = LET profile == Profile(caller)
                  belongToKey == GetBelongsToKey(profile)
                  contract == FindOneContract(id, belongToKey, profile.id)
              IN [kind |-> "contract", profile |-> caller, id |-> id,
                  status |-> IF contract = <<>> THEN 404 ELSE 200, body |-> contract]
    /\ UNCHANGED <<profiles, contracts, jobs, req, profiles0, jobs0>>

\* the status filter left out
FindAllContractsAnyStatus(belongToKey, profileId) ==
    LET Match(c) == contracts[c][belongToKey] = profileId
        found == SelectSeq(Ids(Len(contracts)), Match)
    IN [i \in 1..Len(found) |-> ContractRow(found[i])]

\* Contract.findAll({where: {[belongToKey]: profile.id, status: {[Op.not]: 'terminated'}}})
FindAllContractsNotTerminated(belongToKey, profileId) ==
    LET Match(c) == contracts[c][belongToKey] = profileId /\ contracts[c].status # "terminated"
        found == SelectSeq(Ids(Len(contracts)), Match)
    IN [i \in 1..Len(found) |-> ContractRow(found[i])]

\* GET /contracts
GetContracts(caller) ==
    /\ Serve
    /\ res' = LET profile == Profile(caller)
                  belongToKey == GetBelongsToKey(profile)
              IN [kind |-> "contracts", profile |-> caller, status |-> 200,
                  body |-> FindAllContractsNotTerminated(belongToKey, profile.id)]
    /\ UNCHANGED <<profiles, contracts, jobs, req, profiles0, jobs0>>

\* Contract.findAll({attributes: ['id'], where: {[belongToKey]: profile.id, status: 'in_progress'}})
\* followed by contracts.map((contract) => contract.id)
FindInProgressContractIds(belongToKey, profileId) ==
    LET Match(c) == contracts[c][belongToKey] = profileId /\ contracts[c].status = "in_progress"
    IN SelectSeq(Ids(Len(contracts)), Match)

\* an empty id list matching every job
FindUnpaidJobsEmptyMatchesAll(contractIds) ==
    LET Match(j) == /\ contractIds = <<>> \/ jobs[j].ContractId \in Range(contractIds)
                    /\ jobs[j].paid # "true"
        found == SelectSeq(Ids(Len(jobs)), Match)
    IN [i \in 1..Len(found) |-> JobRowOf(found[i])]

\* Job.findAll({where: {ContractId: contractIds, paid: {[Op.not]: true}}}):
\* ContractId IN (contractIds) AND paid IS NOT true
FindUnpaidJobs(contractIds) ==
    LET Match(j) == jobs[j].ContractId \in Range(contractIds) /\ jobs[j].paid # "true"
        found == SelectSeq(Ids(Len(jobs)), Match)
    IN [i \in 1..Len(found) |-> JobRowOf(found[i])]

\* GET /jobs/unpaid
GetUnpaidJobs(caller) ==
    /\ Serve
    /\ res' = LET profile == Profile(caller)
                  belongToKey == GetBelongsToKey(profile)
                  contractIds == FindInProgressContractIds(belongToKey, profile.id)
              IN [kind |-> "unpaid", profile |-> caller, status |-> 200,
                  body |-> FindUnpaidJobs(contractIds)]
    /\ UNCHANGED <<profiles, contracts, jobs, req, profiles0, jobs0>>

\* POST /balances/deposit/:userId
Deposit(userId) ==
    /\ Serve
    /\ res' = [kind |-> "deposit", userId |-> userId, status |-> 404]
    /\ UNCHANGED <<profiles, contracts, jobs, req, profiles0, jobs0>>

(***************************************************************************)
(* The admin reports.  A JavaScript object is modelled by the sequence of  *)
(* its <<key, value>> entries in insertion order.                          *)
(***************************************************************************)
\* Job.findAll({where: { paymentDate: { [Op.between]: [start, end] }}}); a NULL
\* paymentDate is in no range
FindJobsInRange(start, end) ==
    LET Match(j) == /\ jobs[j].paymentDate # Null
                    /\ start <= jobs[j].paymentDate /\ jobs[j].paymentDate <= end
        found == SelectSeq(Ids(Len(jobs)), Match)
    IN [i \in 1..Len(found) |-> JobRowOf(found[i])]

\* [...new Set(jobsInRange.map((job) => job.ContractId))]: first occurrences, in order
UniqueContractIds(jobsInRange) ==
    LET First(i) == \A k \in 1..(i - 1) : jobsInRange[k].ContractId # jobsInRange[i].ContractId
        firsts == SelectSeq(Ids(Len(jobsInRange)), First)
    IN [i \in 1..Len(firsts) |-> jobsInRange[firsts[i]].ContractId]

\* Contract.findAll({where: {id: contractIds }, include: ...}), the included
\* Contractor and Client profiles joined to each row
FindContractsIn(contractIds) ==
    LET Match(c) == c \in Range(contractIds)
        found == SelectSeq(Ids(Len(contracts)), Match)
    IN [i \in 1..Len(found) |->
          [id |-> found[i],
           Contractor |-> [id |-> contracts[found[i]].ContractorId,
                           profession |-> profiles[contracts[found[i]].ContractorId].profession],
           Client |-> [id |-> contracts[found[i]].ClientId]]]

RECURSIVE ReduceJobs(_, _, _)
\* jobsInRange.reduce((summary, job) => {...}, {}): the summed price per ContractId
ReduceJobs(jobsInRange, i, summary) ==
    IF i > Len(jobsInRange) THEN summary
    ELSE LET job == jobsInRange[i]
             s0 == IF job.ContractId \notin DOMAIN summary
                   THEN [k \in DOMAIN summary \cup {job.ContractId} |->
                            IF k = job.ContractId THEN 0 ELSE summary[k]]
                   ELSE summary
         IN ReduceJobs(jobsInRange, i + 1, [s0 EXCEPT ![job.ContractId] = @ + job.price])

ContractPaidSummary(jobsInRange) == ReduceJobs(jobsInRange, 1, <<>>)

\* summary.hasOwnProperty(key)
HasOwnProperty(summary, key) == \E i \in 1..Len(summary) : summary[i][1] = key

\* the amount assigned, not added
AssignAmount(summary, key, amount) ==
    IF HasOwnProperty(summary, key)
    THEN [i \in 1..Len(summary) |->
            IF summary[i][1] = key THEN <<key, amount>> ELSE summary[i]]
    ELSE Append(summary, <<key, amount>>)

\* if(!summary.hasOwnProperty(key)) summary[key] = 0; summary[key] += amount
AddAmount(summary, key, amount) ==
    IF HasOwnProperty(summary, key)
    THEN [i \in 1..Len(summary) |->
            IF summary[i][1] = key THEN <<key, summary[i][2] + amount>> ELSE summary[i]]
    ELSE Append(summary, <<key, 0 + amount>>)

RECURSIVE ReduceProfessions(_, _, _, _)
\* contractsInRange.reduce((summary, contract) => {...}, {}) of best-profession
ReduceProfessions(contractsInRange, contractPaidSummary, i, summary) ==
    IF i > Len(contractsInRange) THEN summary
    ELSE LET contract == contractsInRange[i]
         IN ReduceProfessions(contractsInRange, contractPaidSummary, i + 1,
                AddAmount(summary, contract.Contractor.profession,
                          contractPaidSummary[contract.id]))

RECURSIVE ReduceClients(_, _, _, _)
\* contractsInRange.reduce((summary, contract) => {...}, {}) of best-clients;
\* the value {id, fullname, paid} is kept as its paid amount under the key id
ReduceClients(contractsInRange, contractPaidSummary, i, summary) ==
    IF i > Len(contractsInRange) THEN summary
    ELSE LET contract == contractsInRange[i]
         IN ReduceClients(contractsInRange, contractPaidSummary, i + 1,
                AddAmount(summary, contract.Client.id, contractPaidSummary[contract.id]))

\* the place of s[i] after a stable sort by ascending weight w
Rank(w, i) ==
    1 + Cardinality({j \in 1..Len(w) : w[j] < w[i] \/ (w[j] = w[i] /\ j < i)})

\* Array.prototype.sort with the comparator (a, b) => w(a) - w(b): stable
StableSort(s, w) ==
    [k \in 1..Len(s) |-> s[CHOOSE i \in 1..Len(s) : Rank(w, i) = k]]

\* Object.entries of an object with string keys: insertion order
ObjectEntries(summary) == summary

\* Object.entries of an object with integer keys: ascending key order
ObjectEntriesIntegerKeys(summary) ==
    StableSort(summary, [i \in 1..Len(summary) |-> summary[i][1]])

\* .sort((obj1, obj2) => obj2[1] - obj1[1])
SortDescending(entries) == StableSort(entries, [i \in 1..Len(entries) |-> 0 - entries[i][2]])

\* .sort((obj1, obj2) => obj1[1] - obj2[1])
SortAscending(entries) == StableSort(entries, [i \in 1..Len(entries) |-> entries[i][2]])

\* sortedEntries[0]
FirstEntry(sortedEntries) == sortedEntries[1]

\* GET /admin/best-profession (app.js lines 285-323)
BestProfession(start, end) ==
    /\ Serve
    /\ res' =
        [kind |-> "bestProfession", variant |-> "later", start |-> start, end |-> end] @@
        IF start = Null \/ end = Null
        THEN [status |-> 400, body |-> <<>>]
        ELSE LET jobsInRange == FindJobsInRange(start, end)
             IN IF Len(jobsInRange) = 0
                THEN [status |-> 404, body |-> <<>>]
                ELSE LET contractIds == UniqueContractIds(jobsInRange)
                         contractsInRange == FindContractsIn(contractIds)
                         contractPaidSummary == ContractPaidSummary(jobsInRange)
                         professionPaidSummary ==
                             ReduceProfessions(contractsInRange, contractPaidSummary, 1, <<>>)
                         sortedEntries == SortDescending(ObjectEntries(professionPaidSummary))
                         bestPaidProfession == FirstEntry(sortedEntries)
                     IN [status |-> 200,
                         body |-> <<[profession |-> bestPaidProfession[1],
                                     amountPaid |-> bestPaidProfession[2]]>>]
    /\ UNCHANGED <<profiles, contracts, jobs, req, profiles0, jobs0>>

\* the first entry of the ascending sort taken
FirstOfAscending(sortedEntries) == sortedEntries[1]

\* sortedEntries[sortedEntries.length -1]
LastOfAscending(sortedEntries) == sortedEntries[Len(sortedEntries)]

\* GET /admin/best-profession, the earlier variant (app.js lines 104-142): no
\* guard for an empty range, where bestPaidProfession is undefined and
\* bestPaidProfession[0] throws (status 500 stands for the request that fails)
BestProfessionEarlier(start, end) ==
    /\ Serve
    /\ res' =
        [kind |-> "bestProfession", variant |-> "earlier", start |-> start, end |-> end] @@
        IF start = Null \/ end = Null
        THEN [status |-> 400, body |-> <<>>]
        ELSE LET jobsInRange == FindJobsInRange(start, end)
                 contractIds == UniqueContractIds(jobsInRange)
                 contractsInRange == FindContractsIn(contractIds)
                 contractPaidSummary == ContractPaidSummary(jobsInRange)
                 professionPaidSummary ==
                     ReduceProfessions(contractsInRange, contractPaidSummary, 1, <<>>)
                 sortedEntries == SortAscending(ObjectEntries(professionPaidSummary))
             IN IF Len(sortedEntries) = 0
                THEN [status |-> 500, body |-> <<>>]
                ELSE LET bestPaidProfession == LastOfAscending(sortedEntries)
                     IN [status |-> 200,
                         body |-> <<[profession |-> bestPaidProfession[1],
                                     amountPaid |-> bestPaidProfession[2]]>>]
    /\ UNCHANGED <<profiles, contracts, jobs, req, profiles0, jobs0>>

DefaultLimit == 2

\* Array.prototype.slice(0, limit) for a limit >= 0
Slice(s, limit) == SubSeq(s, 1, IF limit < Len(s) THEN limit ELSE Len(s))

\* GET /admin/best-clients; queryLimit is Null when the query has no limit
BestClients(start, end, queryLimit) ==
    /\ Serve
    /\ res' =
        [kind |-> "bestClients", start |-> start, end |-> end, limit |-> queryLimit] @@
        IF start = Null \/ end = Null
        THEN [status |-> 400, body |-> <<>>]
        ELSE LET limit == IF queryLimit = Null THEN DefaultLimit ELSE queryLimit
                 jobsInRange == FindJobsInRange(start, end)
             IN IF Len(jobsInRange) = 0
                THEN [status |-> 404, body |-> <<>>]
                ELSE LET contractIds == UniqueContractIds(jobsInRange)
                         contractsInRange == FindContractsIn(contractIds)
                         contractPaidSummary == ContractPaidSummary(jobsInRange)
                         clientsPaidSummary ==
                             ReduceClients(contractsInRange, contractPaidSummary, 1, <<>>)
                         sortedEntries ==
                             SortDescending(ObjectEntriesIntegerKeys(clientsPaidSummary))
                         top == Slice(sortedEntries, limit)
                         result == [i \in 1..Len(top) |->
                                       [id |-> top[i][1], paid |-> top[i][2]]]
                     IN [status |-> 200, body |-> result]
    /\ UNCHANGED <<profiles, contracts, jobs, req, profiles0, jobs0>>

(***************************************************************************)
(* Initial tables.  Every contract links a client profile to a contractor  *)
(* profile, every job belongs to a contract, has a positive price and has  *)
(* a paymentDate iff it is paid.  Profile ids 1..NumClients are clients,   *)
(* the next NumContractors are contractors.                                *)
(***************************************************************************)
ProfileRows(balances) ==
    [p \in ProfileIds |->
        [type |-> IF p \in Clients THEN "client" ELSE "contractor",
         balance |-> balances[p],
         profession |-> IF p \in Clients THEN "none"
                        ELSE IF (p - NumClients) % 2 = 1 THEN "Programmer" ELSE "Musician"]]

JobRow(c, price, paid, date) ==
    [ContractId |-> c, price |-> price, paid |-> paid,
     paymentDate |-> IF paid = "true" THEN date ELSE Null]

NoRequests ==
    /\ req = [r \in Requests |-> Idle]
    /\ res = [kind |-> "none"]
    /\ served = 0
    /\ profiles0 = profiles
    /\ jobs0 = jobs

\* Tables of the payment specifications: client balances, contract clients,
\* job prices and paid flags vary
PayInit ==
    /\ \E b \in [Clients -> 0..MaxBalance] :
          profiles = ProfileRows([p \in ProfileIds |-> IF p \in Clients THEN b[p] ELSE 0])
    /\ \E cl \in [ContractIds -> Clients] :
          contracts = [c \in ContractIds |->
                          [ClientId |-> cl[c],
                           ContractorId |-> NumClients + 1 + ((c - 1) % NumContractors),
                           status |-> "in_progress"]]
    /\ \E jp \in [JobIds -> 1..MaxPrice], pd \in [JobIds -> PaidValues] :
          jobs = [j \in JobIds |-> JobRow(1 + ((j - 1) % NumContracts), jp[j], pd[j], 0)]
    /\ NoRequests

\* Tables of the contract and job listings: the parties and status of every
\* contract and the contract and paid flag of every job vary
ListingInit ==
    /\ profiles = ProfileRows([p \in ProfileIds |-> 0])
    /\ \E cl \in [ContractIds -> Clients], ct \in [ContractIds -> Contractors],
          st \in [ContractIds -> Status] :
          contracts = [c \in ContractIds |->
                          [ClientId |-> cl[c], ContractorId |-> ct[c], status |-> st[c]]]
    /\ \E jc \in [JobIds -> ContractIds], pd \in [JobIds -> PaidValues] :
          jobs = [j \in JobIds |-> JobRow(jc[j], 1, pd[j], 0)]
    /\ NoRequests

\* Tables of the reports: the parties of every contract and the contract,
\* price and payment date of every job vary
ReportInit ==
    /\ profiles = ProfileRows([p \in ProfileIds |-> 0])
    /\ \E cl \in [ContractIds -> Clients], ct \in [ContractIds -> Contractors] :
          contracts = [c \in ContractIds |->
                          [ClientId |-> cl[c], ContractorId |-> ct[c], status |-> "in_progress"]]
    /\ \E jc \in [1..NumReportJobs -> ContractIds], jp \in [1..NumReportJobs -> 1..MaxPrice],
          dt \in [1..NumReportJobs -> Dates \cup {Null}] :
          jobs = [j \in 1..NumReportJobs |->
                     JobRow(jc[j], jp[j], IF dt[j] = Null THEN "null" ELSE "true", dt[j])]
    /\ NoRequests

PayStep(r) ==
    \/ \E caller \in ProfileIds, job_id \in 1..(NumJobs + 1) : StartPay(r, caller, job_id)
    \/ FindJob(r)
    \/ GetContract(r)
    \/ HasClient(r)
    \/ SaveProfile(r)
    \/ \E today \in Dates : SaveContractor(r, today)
    \/ SaveJob(r)

Next == \E r \in Requests : PayStep(r)

\* Concurrent payment requests, interleaved at every persistence call
Spec == PayInit /\ [][Next]_vars

InFlight(r) == req[r].pc \notin {"idle", "done"}

\* One payment request at a time: a request starts only when none is in flight
SeqPayStep(r) ==
    \/ /\ \A q \in Requests : ~InFlight(q)
       /\ \E caller \in ProfileIds, job_id \in 1..(NumJobs + 1) : StartPay(r, caller, job_id)
    \/ FindJob(r)
    \/ GetContract(r)
    \/ HasClient(r)
    \/ SaveProfile(r)
    \/ \E today \in Dates : SaveContractor(r, today)
    \/ SaveJob(r)

SeqNext == \E r \in Requests : SeqPayStep(r)

SeqSpec == PayInit /\ [][SeqNext]_vars

ListingNext ==
    \/ \E caller \in ProfileIds, id \in 1..(NumContracts + 1) : GetContractById(caller, id)
    \/ \E caller \in ProfileIds : GetContracts(caller)
    \/ \E caller \in ProfileIds : GetUnpaidJobs(caller)
    \/ \E userId \in ProfileIds : Deposit(userId)

\* The contract and job listings over every table of ListingInit
ListingSpec == ListingInit /\ [][ListingNext]_vars

ReportNext ==
    \/ \E start \in Dates \cup {Null}, end \in Dates \cup {Null} : BestProfession(start, end)
    \/ \E start \in Dates \cup {Null}, end \in Dates \cup {Null} :
          BestProfessionEarlier(start, end)
    \/ \E start \in Dates \cup {Null}, end \in Dates \cup {Null},
          queryLimit \in (0..MaxLimit) \cup {Null} : BestClients(start, end, queryLimit)

\* The admin reports over every table of ReportInit
ReportSpec == ReportInit /\ [][ReportNext]_vars

(***************************************************************************)
(* Claims about the payment handler                                        *)
(***************************************************************************)
Paid == "Job paid successfully"

\* the step of request r that ends with the success reply
PaysNow(r) == req[r].pc = "saveJob" /\ req'[r].pc = "done"

\* C1: a payment request that runs without interleaving and passes the four
\* guards leaves the caller's stored balance at its balance before the request
\* minus the job price and the Contractor's stored balance at its balance
\* before plus the job price; the sum of the two is unchanged.
C1_PayTransfersPrice ==
    [][\A r \in Requests : PaysNow(r) =>
          LET caller == req[r].profile.id
              ctr == contracts[jobs[req[r].job_id].ContractId].ContractorId
              price == jobs[req[r].job_id].price
          IN /\ res'.body = Paid
             /\ profiles'[caller].balance = req[r].pre[caller] - price
             /\ profiles'[ctr].balance = req[r].pre[ctr] + price
             /\ profiles'[caller].balance + profiles'[ctr].balance
                    = req[r].pre[caller] + req[r].pre[ctr]]_vars

C1_Witness ==
    /\ res.kind = "pay" /\ res.body = Paid
    /\ profiles[res.profile].balance < profiles0[res.profile].balance
    /\ Truthy(jobs[res.job_id].paid) /\ ~Truthy(jobs0[res.job_id].paid)

\* a step taken by request r
Steps(r) == req'[r] # req[r]

\* C2: a payment request by a client for a job whose paid flag is true ends,
\* when it has read the job, with 'This job was already paid', and writes no
\* profile balance and leaves the job as it is; a paid job stays paid, so a
\* job paid when the request arrives is paid when the request reads it.
C2_AlreadyPaidFails ==
    [][/\ \A j \in DOMAIN jobs : jobs[j].paid = "true" => jobs'[j].paid = "true"
       /\ \A r \in Requests :
             (/\ req[r].pc = "findJob" /\ Steps(r)
              /\ req[r].job_id \in DOMAIN jobs /\ jobs[req[r].job_id].paid = "true")
             => /\ req'[r].pc = "done"
                /\ res' = [kind |-> "pay", profile |-> req[r].profile.id,
                           job_id |-> req[r].job_id, body |-> "This job was already paid"]
                /\ profiles' = profiles /\ jobs' = jobs]_vars

C2_Witness ==
    /\ res.kind = "pay" /\ res.body = "This job was already paid"
    /\ profiles[res.profile].type = "client"
    /\ jobs[res.job_id].paid = "true"

\* C3: a payment request by the client of the job's contract for an unpaid job
\* priced above the caller's balance ends with the insufficient-balance
\* failure, and no step of the request up to that reply writes a profile or
\* a job.
C3_InsufficientBalanceFails ==
    [][\A r \in Requests :
          /\ (Steps(r) /\ req[r].pc \in {"idle", "findJob", "getContract", "hasClient"})
                => profiles' = profiles /\ jobs' = jobs
          /\ (/\ req[r].pc = "hasClient" /\ Steps(r)
              /\ contracts[req[r].jobContract.id].ClientId = req[r].profile.id
              /\ req[r].jobToPay.price > req[r].profile.balance)
             => /\ req'[r].pc = "done"
                /\ res' = [kind |-> "pay", profile |-> req[r].profile.id,
                           job_id |-> req[r].job_id,
                           body |-> "Your balance is not enought to pay for this job"]]_vars

C3_Witness ==
    /\ res.kind = "pay" /\ res.body = "Your balance is not enought to pay for this job"
    /\ contracts[jobs[res.job_id].ContractId].ClientId = res.profile
    /\ ~Truthy(jobs[res.job_id].paid)
    /\ jobs[res.job_id].price > profiles[res.profile].balance

\* request r has passed the four guards for job j and is at its writes
Paying(r, j) ==
    req[r].pc \in {"saveProfile", "saveContractor", "saveJob"} /\ req[r].job_id = j

\* C9: over any number of concurrent payment requests for a job, at most one
\* passes the 'already paid' check and performs the debit, the credit and the
\* paid write: no two requests are at their writes for the same job, and no
\* request is at its writes for a job that is already marked paid.
C9_JobPaidAtMostOnce ==
    \A j \in DOMAIN jobs :
        /\ Cardinality({r \in Requests : Paying(r, j)}) <= 1
        /\ (\E r \in Requests : Paying(r, j)) => ~Truthy(jobs[j].paid)

\* the jobs paid through the handler
PaidJobs == {j \in DOMAIN jobs : Truthy(jobs[j].paid) /\ ~Truthy(jobs0[j].paid)}
PriceOf == [j \in DOMAIN jobs |-> jobs[j].price]
BalanceOf == [p \in ProfileIds |-> profiles[p].balance]
Balance0Of == [p \in ProfileIds |-> profiles0[p].balance]

\* C10: once every payment request has completed, each client's balance is its
\* initial balance minus the prices of the jobs it paid, each contractor's
\* balance is its initial balance plus the prices of the paid jobs of its
\* contracts, and the total of all balances is the initial total.
C10_BalancesMatchTransfers ==
    (\A r \in Requests : ~InFlight(r)) =>
        /\ \A c \in Clients : profiles[c].balance = profiles0[c].balance
              - SumOver({j \in PaidJobs : contracts[jobs[j].ContractId].ClientId = c}, PriceOf)
        /\ \A c \in Contractors : profiles[c].balance = profiles0[c].balance
              + SumOver({j \in PaidJobs : contracts[jobs[j].ContractId].ContractorId = c}, PriceOf)
        /\ SumOver(ProfileIds, BalanceOf) = SumOver(ProfileIds, Balance0Of)

(***************************************************************************)
(* Claims about the contract and job listings                              *)
(***************************************************************************)
\* profile p is the party of contract c that its type selects
Party(p, c) ==
    IF profiles[p].type = "client" THEN contracts[c].ClientId = p
    ELSE contracts[c].ContractorId = p

\* C4: GET /contracts/:id returns the contract only if its ClientId (caller a
\* client) or ContractorId (otherwise) is the caller's id; a contract of
\* somebody else gets the 404 with no data that a nonexistent id gets.
C4_ContractScopedToCaller ==
    res.kind = "contract" =>
        LET owned == res.id \in DOMAIN contracts /\ Party(res.profile, res.id)
        IN /\ res.status = 200 => owned /\ res.body = <<ContractRow(res.id)>>
           /\ ~owned => res.status = 404 /\ res.body = <<>>

C4_Witness ==
    /\ res.kind = "contract" /\ res.id \in DOMAIN contracts
    /\ ~Party(res.profile, res.id) /\ res.status = 404

\* C5: GET /contracts returns exactly the contracts of which the caller is a
\* party and whose status is not terminated, each once.
C5_ContractsListed ==
    res.kind = "contracts" =>
        /\ Range(res.body) = {ContractRow(c) : c \in
              {c \in DOMAIN contracts :
                  Party(res.profile, c) /\ contracts[c].status # "terminated"}}
        /\ \A i, k \in 1..Len(res.body) : i # k => res.body[i].id # res.body[k].id

C5_Witness ==
    /\ res.kind = "contracts" /\ res.body # <<>>
    /\ \E c \in DOMAIN contracts :
          Party(res.profile, c) /\ contracts[c].status = "terminated"

\* the in_progress contracts of which profile p is a party
InProgressOf(p) ==
    {c \in DOMAIN contracts : Party(p, c) /\ contracts[c].status = "in_progress"}

\* C6: GET /jobs/unpaid returns exactly the jobs with paid not true of the
\* caller's in_progress contracts, and nothing when the caller has none.
C6_UnpaidJobsListed ==
    res.kind = "unpaid" =>
        /\ Range(res.body) = {JobRowOf(j) : j \in
              {j \in DOMAIN jobs :
                  jobs[j].paid # "true" /\ jobs[j].ContractId \in InProgressOf(res.profile)}}
        /\ \A i, k \in 1..Len(res.body) : i # k => res.body[i].id # res.body[k].id
        /\ InProgressOf(res.profile) = {} => res.body = <<>>

C6_Witness ==
    /\ res.kind = "unpaid" /\ InProgressOf(res.profile) = {} /\ res.body = <<>>
    /\ \E j \in DOMAIN jobs : jobs[j].paid # "true"

(***************************************************************************)
(* Claims about the reports                                                *)
(***************************************************************************)
\* the jobs with paymentDate in [start, end]
InRange(start, end) ==
    {j \in DOMAIN jobs : /\ jobs[j].paymentDate # Null
                         /\ start <= jobs[j].paymentDate /\ jobs[j].paymentDate <= end}

ProfessionOf(j) == profiles[contracts[jobs[j].ContractId].ContractorId].profession
ClientOf(j) == contracts[jobs[j].ContractId].ClientId

\* the summed price of the in-range jobs paid to profession p
ProfessionSum(p, start, end) ==
    SumOver({j \in InRange(start, end) : ProfessionOf(j) = p}, PriceOf)

\* the summed price of the in-range jobs of client c
ClientSum(c, start, end) ==
    SumOver({j \in InRange(start, end) : ClientOf(j) = c}, PriceOf)

\* C7: over a range with at least one paid job, either variant of
\* GET /admin/best-profession returns a profession with the summed price of
\* the in-range jobs of its contractors, and no profession has a larger sum.
C7_BestProfessionIsTopPaid ==
    (/\ res.kind = "bestProfession" /\ res.start # Null /\ res.end # Null
     /\ InRange(res.start, res.end) # {})
    => /\ res.status = 200 /\ Len(res.body) = 1
       /\ res.body[1].profession \in Professions
       /\ res.body[1].amountPaid = ProfessionSum(res.body[1].profession, res.start, res.end)
       /\ \A p \in Professions :
             ProfessionSum(p, res.start, res.end) <= res.body[1].amountPaid

C7_Witness ==
    /\ res.kind = "bestProfession" /\ res.variant = "earlier" /\ res.status = 200
    /\ \E p, q \in Professions :
          /\ 0 < ProfessionSum(p, res.start, res.end)
          /\ ProfessionSum(p, res.start, res.end) < ProfessionSum(q, res.start, res.end)
          /\ res.body[1].profession = q

\* C8: over a range with at least one paid job, GET /admin/best-clients with a
\* limit >= 0 (2 when omitted) returns min(limit, number of clients with
\* in-range jobs) entries, paid non-increasing, each client once with the
\* summed price of its in-range jobs, and no omitted client paid more than a
\* returned one.
C8_BestClientsAreTopPaying ==
    (/\ res.kind = "bestClients" /\ res.start # Null /\ res.end # Null
     /\ InRange(res.start, res.end) # {})
    => LET limit == IF res.limit = Null THEN 2 ELSE res.limit
           payers == {ClientOf(j) : j \in InRange(res.start, res.end)}
           n == Len(res.body)
           listed == {res.body[i].id : i \in 1..n}
       IN /\ res.status = 200
          /\ n = (IF limit < Cardinality(payers) THEN limit ELSE Cardinality(payers))
          /\ \A i, k \in 1..n : i < k => res.body[i].paid >= res.body[k].paid
          /\ \A i, k \in 1..n : i # k => res.body[i].id # res.body[k].id
          /\ \A i \in 1..n : /\ res.body[i].id \in payers
                             /\ res.body[i].paid = ClientSum(res.body[i].id, res.start, res.end)
          /\ \A c \in payers \ listed : \A i \in 1..n :
                ClientSum(c, res.start, res.end) <= res.body[i].paid

C8_Witness ==
    /\ res.kind = "bestClients" /\ res.status = 200 /\ res.limit = 1 /\ Len(res.body) = 1
    /\ \E c \in Clients :
          /\ 0 < ClientSum(c, res.start, res.end)
          /\ ClientSum(c, res.start, res.end) < res.body[1].paid

====
